---- MODULE Spec2Model ----
(***************************************************************************)
(* Model of dagster/core/storage/fs_io_manager.py: the two pickling        *)
(* filesystem IO managers (PickledObjectFilesystemIOManager and            *)
(* CustomPathPickledObjectFilesystemIOManager), the POSIX path functions   *)
(* and file-system calls they use, and the pickle codec.                   *)
(*                                                                         *)
(* Strings are sequences of one-character strings, so that os.path.join,   *)
(* os.path.dirname and os.path.abspath are computed character by           *)
(* character as posixpath computes them.  A file-system node is named by   *)
(* the sequence of directory-entry names leading to it from the root.      *)
(***************************************************************************)
EXTENDS Integers, Sequences, FiniteSets, TLC

VARIABLES manager, dirs, files, log, procs

vars == <<manager, dirs, files, log, procs>>

----------------------------------------------------------------------------
(* posixpath *)

sep == "/"

StartsWithSep(s) == Len(s) > 0 /\ s[1] = sep

EndsWithSep(s) == Len(s) > 0 /\ s[Len(s)] = sep

\* one iteration of the loop of posixpath.join
JoinStep(path, b) ==
    IF StartsWithSep(b) THEN b
    ELSE IF path = <<>> \/ EndsWithSep(path) THEN path \o b
    ELSE path \o <<sep>> \o b

RECURSIVE os_path_join(_, _)
os_path_join(a, p) ==
    IF p = <<>> THEN a ELSE os_path_join(JoinStep(a, Head(p)), Tail(p))

\* p.rfind(sep) + 1
RFindSep(p) ==
    LET at == {i \in 1..Len(p) : p[i] = sep}
    IN  IF at = {} THEN 0 ELSE CHOOSE i \in at : \A j \in at : j <= i

AllSep(s) == \A i \in 1..Len(s) : s[i] = sep

RECURSIVE RStripSep(_)
RStripSep(s) ==
    IF EndsWithSep(s) THEN RStripSep(SubSeq(s, 1, Len(s) - 1)) ELSE s

os_path_dirname(p) ==
    LET head == SubSeq(p, 1, RFindSep(p))
    IN  IF head # <<>> /\ ~AllSep(head) THEN RStripSep(head) ELSE head

\* p.split(sep): the components between separators, empty ones included
RECURSIVE SplitSep(_)
SplitSep(p) ==
    LET at == {i \in 1..Len(p) : p[i] = sep}
    IN  IF at = {} THEN <<p>>
        ELSE LET i == CHOOSE i \in at : \A j \in at : i <= j
             IN  <<SubSeq(p, 1, i - 1)>> \o SplitSep(SubSeq(p, i + 1, Len(p)))

dot == <<".">>

dotdot == <<".", ".">>

\* the loop of posixpath.normpath over the components
RECURSIVE NormComps(_, _, _)
NormComps(comps, new, rooted) ==
    IF comps = <<>> THEN new
    ELSE LET c == Head(comps)
         IN  IF c = <<>> \/ c = dot THEN NormComps(Tail(comps), new, rooted)
             ELSE IF c # dotdot \/ (~rooted /\ new = <<>>)
                     \/ (new # <<>> /\ new[Len(new)] = dotdot)
                  THEN NormComps(Tail(comps), Append(new, c), rooted)
             ELSE IF new # <<>>
                  THEN NormComps(Tail(comps), SubSeq(new, 1, Len(new) - 1), rooted)
             ELSE NormComps(Tail(comps), new, rooted)

RECURSIVE JoinSep(_)
JoinSep(comps) ==
    IF comps = <<>> THEN <<>>
    ELSE IF Len(comps) = 1 THEN comps[1]
    ELSE comps[1] \o <<sep>> \o JoinSep(Tail(comps))

os_path_normpath(path) ==
    IF path = <<>> THEN dot
    ELSE LET slashes == IF ~StartsWithSep(path) THEN <<>>
                        ELSE IF Len(path) >= 2 /\ path[2] = sep
                                /\ ~(Len(path) >= 3 /\ path[3] = sep)
                             THEN <<sep, sep>>
                        ELSE <<sep>>
             body == JoinSep(NormComps(SplitSep(path), <<>>, slashes # <<>>))
             out == slashes \o body
         IN  IF out = <<>> THEN dot ELSE out

\* the working directory of the process (os.getcwd())
cwd == <<sep, "w">>

os_path_abspath(path) ==
    os_path_normpath(IF StartsWithSep(path) THEN path ELSE os_path_join(cwd, <<path>>))

----------------------------------------------------------------------------
(* The file system: the directories, and the regular files with their      *)
(* bytes.  There are no symbolic links.                                    *)

root == <<>>

cwdKey == <<<<"w">>>>

Parent(key) == IF key = root THEN root ELSE SubSeq(key, 1, Len(key) - 1)

Front(s) == SubSeq(s, 1, Len(s) - 1)

Last(s) == s[Len(s)]

StartKey(path) == IF StartsWithSep(path) THEN root ELSE cwdKey

\* The kernel's walk over the directory components of a path: every named
\* component must be an existing directory.
RECURSIVE WalkDirs(_, _, _, _)
WalkDirs(ds, fs, cur, comps) ==
    IF comps = <<>> THEN [exc |-> "None", key |-> cur]
    ELSE LET c == Head(comps)
         IN  IF c = <<>> \/ c = dot THEN WalkDirs(ds, fs, cur, Tail(comps))
             ELSE IF c = dotdot THEN WalkDirs(ds, fs, Parent(cur), Tail(comps))
             ELSE IF Append(cur, c) \in ds
                  THEN WalkDirs(ds, fs, Append(cur, c), Tail(comps))
             ELSE IF Append(cur, c) \in DOMAIN fs
                  THEN [exc |-> "NotADirectoryError", key |-> cur]
             ELSE [exc |-> "FileNotFoundError", key |-> cur]

\* What a path names for open(): the node, or the error of the lookup.
\* A path that ends in a separator, "." or ".." names a directory.
Lookup(ds, fs, path) ==
    IF path = <<>> THEN [exc |-> "FileNotFoundError", key |-> root]
    ELSE LET comps == SplitSep(path)
             w == WalkDirs(ds, fs, StartKey(path), Front(comps))
             c == Last(comps)
         IN  IF w.exc # "None" THEN w
             ELSE IF c = <<>> \/ c = dot \/ c = dotdot \/ Append(w.key, c) \in ds
                  THEN [exc |-> "IsADirectoryError", key |-> w.key]
             ELSE [exc |-> "None", key |-> Append(w.key, c)]

\* open() for writing that does not create a missing file (no O_CREAT)
OpenWrite_no_create(ds, fs, path) ==
    LET l == Lookup(ds, fs, path)
    IN  IF l.exc # "None" THEN [exc |-> l.exc, key |-> l.key, files |-> fs]
        ELSE IF l.key \notin DOMAIN fs
             THEN [exc |-> "FileNotFoundError", key |-> l.key, files |-> fs]
        ELSE [exc |-> "None", key |-> l.key, files |-> [fs EXCEPT ![l.key] = <<>>]]

\* open() for writing that keeps the bytes of an existing file (no O_TRUNC)
OpenWrite_no_trunc(ds, fs, path) ==
    LET l == Lookup(ds, fs, path)
    IN  IF l.exc # "None" THEN [exc |-> l.exc, key |-> l.key, files |-> fs]
        ELSE [exc |-> "None", key |-> l.key,
              files |-> [k \in DOMAIN fs \cup {l.key} |->
                            IF k \in DOMAIN fs THEN fs[k] ELSE <<>>]]

\* open(filepath, "wb"): O_WRONLY | O_CREAT | O_TRUNC
OpenWrite(ds, fs, path) ==
    LET l == Lookup(ds, fs, path)
    IN  IF l.exc # "None" THEN [exc |-> l.exc, key |-> l.key, files |-> fs]
        ELSE [exc |-> "None", key |-> l.key,
              files |-> [k \in DOMAIN fs \cup {l.key} |->
                            IF k = l.key THEN <<>> ELSE fs[k]]]

\* open(filepath, "rb"): O_RDONLY
OpenRead(ds, fs, path) ==
    LET l == Lookup(ds, fs, path)
    IN  IF l.exc # "None" THEN l
        ELSE IF l.key \notin DOMAIN fs
             THEN [exc |-> "FileNotFoundError", key |-> l.key]
        ELSE l

\* write(fd, data) at the descriptor's offset: bytes between the end of the
\* file and the offset read as zero.
WriteAt(content, offset, data) ==
    LET n == IF Len(content) > offset + Len(data)
             THEN Len(content) ELSE offset + Len(data)
    IN  [i \in 1..n |->
            IF i > offset /\ i <= offset + Len(data) THEN data[i - offset]
            ELSE IF i <= Len(content) THEN content[i]
            ELSE 0]

\* One component of the directory chain mkdir_p ensures: an existing
\* directory is kept, a missing one is created, a regular file in the way
\* is an error.
MkdirComp(ds, fs, cur, c, last) ==
    IF c = <<>> \/ c = dot THEN [exc |-> "None", dirs |-> ds, key |-> cur]
    ELSE IF c = dotdot THEN [exc |-> "None", dirs |-> ds, key |-> Parent(cur)]
    ELSE IF Append(cur, c) \in DOMAIN fs
         THEN [exc |-> IF last THEN "FileExistsError" ELSE "NotADirectoryError",
               dirs |-> ds, key |-> cur]
    ELSE [exc |-> "None", dirs |-> ds \cup {Append(cur, c)}, key |-> Append(cur, c)]

RECURSIVE MkdirChain(_, _, _, _)
MkdirChain(ds, fs, cur, comps) ==
    IF comps = <<>> THEN [exc |-> "None", dirs |-> ds, key |-> cur]
    ELSE LET m == MkdirComp(ds, fs, cur, Head(comps), Len(comps) = 1)
         IN  IF m.exc # "None" THEN m
             ELSE MkdirChain(m.dirs, fs, m.key, Tail(comps))

\* dagster.utils.mkdir_p(path): os.makedirs, an existing directory accepted
mkdir_p(ds, fs, path) ==
    IF path = <<>> THEN [exc |-> "FileNotFoundError", dirs |-> ds, key |-> root]
    ELSE MkdirChain(ds, fs, StartKey(path), SplitSep(path))

----------------------------------------------------------------------------
(* pickle: the codec.  A value is a list of small integers, an integer, or *)
(* a function object, which pickle refuses.                                *)

PROTO == 128

STOP == 46

EMPTY_LIST == 93

BININT1 == 75

APPEND == 97

PICKLE_PROTOCOL == 2

PyInt(n) == [type |-> "int", n |-> n]

PyList(items) == [type |-> "list", items |-> items]

PyFunction == [type |-> "function"]

PyNone == [type |-> "NoneType"]

PyStr(s) == [type |-> "str", s |-> s]

Picklable(obj) ==
    \/ obj.type = "int"
    \/ obj.type = "list" /\ \A i \in 1..Len(obj.items) : obj.items[i].type = "int"

RECURSIVE SaveItems(_)
SaveItems(items) ==
    IF items = <<>> THEN <<>>
    ELSE <<BININT1, Head(items).n, APPEND>> \o SaveItems(Tail(items))

\* the bytes pickle.dump(obj, file, PICKLE_PROTOCOL) writes
pickle_dumps(obj) ==
    <<PROTO, PICKLE_PROTOCOL>>
    \o (IF obj.type = "int" THEN <<BININT1, obj.n>>
        ELSE <<EMPTY_LIST>> \o SaveItems(obj.items))
    \o <<STOP>>

\* The unpickler's loop: read an opcode, act on the stack, until STOP.
RECURSIVE Unpickle(_, _, _)
Unpickle(data, i, stack) ==
    IF i > Len(data) THEN [exc |-> "EOFError", value |-> PyNone]
    ELSE IF data[i] = PROTO
         THEN IF i + 1 > Len(data) THEN [exc |-> "UnpicklingError", value |-> PyNone]
              ELSE Unpickle(data, i + 2, stack)
    ELSE IF data[i] = EMPTY_LIST
         THEN Unpickle(data, i + 1, Append(stack, PyList(<<>>)))
    ELSE IF data[i] = BININT1
         THEN IF i + 1 > Len(data) THEN [exc |-> "UnpicklingError", value |-> PyNone]
              ELSE Unpickle(data, i + 2, Append(stack, PyInt(data[i + 1])))
    ELSE IF data[i] = APPEND
         THEN IF Len(stack) < 2 \/ stack[Len(stack) - 1].type # "list"
              THEN [exc |-> "UnpicklingError", value |-> PyNone]
              ELSE Unpickle(data, i + 1,
                       Append(SubSeq(stack, 1, Len(stack) - 2),
                              PyList(Append(stack[Len(stack) - 1].items, Last(stack)))))
    ELSE IF data[i] = STOP
         THEN IF stack = <<>> THEN [exc |-> "UnpicklingError", value |-> PyNone]
              ELSE [exc |-> "None", value |-> Last(stack)]
    ELSE [exc |-> "UnpicklingError", value |-> PyNone]

\* pickle.load(file) on a file holding these bytes
pickle_load(data) == Unpickle(data, 1, <<>>)

----------------------------------------------------------------------------
(* The execution contexts handed in by the engine *)

\* a metadata dict, as its (key, value) items
Dict(items) == items

\* dict.get(key): the value of the key, or None
DictGet(d, key) ==
    IF \E i \in 1..Len(d) : d[i][1] = key
    THEN d[CHOOSE i \in 1..Len(d) : d[i][1] = key][2]
    ELSE PyNone

OutputContext(pipeline_name, run_id, step_key, name, metadata) ==
    [pipeline_name |-> pipeline_name, run_id |-> run_id, step_key |-> step_key,
     name |-> name, metadata |-> metadata]

\* OutputContext.get_run_scoped_output_identifier()
get_run_scoped_output_identifier(context) ==
    <<context.run_id, context.step_key, context.name>>

\* check.str_param(obj, name): the string, or a CheckError
IsStr(v) == v.type = "str"

----------------------------------------------------------------------------
(* PickledObjectFilesystemIOManager *)

\* a path resolution that leaves out the run id
auto_get_path_no_run(base_dir, context) ==
    os_path_join(base_dir, <<context.step_key, context.name>>)

auto_get_path(base_dir, context) ==
    os_path_join(base_dir, get_run_scoped_output_identifier(context))

\* a store that opens the file and dumps nothing into it
WritePickle_no_dump(ds, fs, filepath, obj) ==
    LET m == mkdir_p(ds, fs, os_path_dirname(filepath))
        o == OpenWrite(m.dirs, fs, filepath)
    IN  IF m.exc # "None" THEN [raised |-> m.exc, dirs |-> m.dirs, files |-> fs]
        ELSE IF o.exc # "None" THEN [raised |-> o.exc, dirs |-> m.dirs, files |-> fs]
        ELSE IF ~Picklable(obj)
             THEN [raised |-> "PicklingError", dirs |-> m.dirs, files |-> o.files]
        ELSE [raised |-> "None", dirs |-> m.dirs, files |-> o.files]

\* a load that answers a missing file with None instead of raising
ReadPickle_default_none(ds, fs, filepath) ==
    LET o == OpenRead(ds, fs, filepath)
    IN  IF o.exc = "FileNotFoundError" THEN [exc |-> "None", value |-> PyNone]
        ELSE IF o.exc # "None" THEN [exc |-> o.exc, value |-> PyNone]
        ELSE pickle_load(fs[o.key])

\* mkdir_p(dirname(filepath)); with open(filepath, "wb") as f: pickle.dump(obj, f)
\* The file is opened, and so created or emptied, before pickle.dump runs;
\* a value pickle refuses leaves it empty.
WritePickle(ds, fs, filepath, obj) ==
    LET m == mkdir_p(ds, fs, os_path_dirname(filepath))
        o == OpenWrite(m.dirs, fs, filepath)
    IN  IF m.exc # "None" THEN [raised |-> m.exc, dirs |-> m.dirs, files |-> fs]
        ELSE IF o.exc # "None" THEN [raised |-> o.exc, dirs |-> m.dirs, files |-> fs]
        ELSE IF ~Picklable(obj)
             THEN [raised |-> "PicklingError", dirs |-> m.dirs, files |-> o.files]
        ELSE [raised |-> "None", dirs |-> m.dirs,
              files |-> [o.files EXCEPT ![o.key] = WriteAt(@, 0, pickle_dumps(obj))]]

\* with open(filepath, "rb") as f: return pickle.load(f)
ReadPickle(ds, fs, filepath) ==
    LET o == OpenRead(ds, fs, filepath)
    IN  IF o.exc # "None" THEN [exc |-> o.exc, value |-> PyNone]
        ELSE pickle_load(fs[o.key])

\* a handle_output of the auto-path manager that returns a record
auto_handle_output_emits(ds, fs, base_dir, context, obj) ==
    LET filepath == auto_get_path(base_dir, context)
        w == WritePickle(ds, fs, filepath, obj)
    IN  [filepath |-> filepath, raised |-> w.raised,
         ret |-> IF w.raised # "None" THEN PyNone
                 ELSE [type |-> "AssetMaterialization",
                       asset_key |-> <<context.pipeline_name, context.step_key,
                                       context.name>>,
                       fspath |-> os_path_abspath(filepath)],
         dirs |-> w.dirs, files |-> w.files]

auto_handle_output(ds, fs, base_dir, context, obj) ==
    LET filepath == auto_get_path(base_dir, context)
        w == WritePickle(ds, fs, filepath, obj)
    IN  [filepath |-> filepath, raised |-> w.raised, ret |-> PyNone,
         dirs |-> w.dirs, files |-> w.files]

auto_load_input(ds, fs, base_dir, upstream_output) ==
    LET filepath == auto_get_path(base_dir, upstream_output)
        r == ReadPickle(ds, fs, filepath)
    IN  [filepath |-> filepath, raised |-> r.exc, ret |-> r.value,
         dirs |-> ds, files |-> fs]

----------------------------------------------------------------------------
(* CustomPathPickledObjectFilesystemIOManager *)

\* a path resolution that forgets the base directory
custom_get_path_no_base(base_dir, path) == path

custom_get_path(base_dir, path) == os_path_join(base_dir, <<path>>)

AssetMaterialization(asset_key, fspath) ==
    [type |-> "AssetMaterialization", asset_key |-> asset_key, fspath |-> fspath]

\* a handle_output that records the file path as joined, not made absolute
custom_handle_output_relpath(ds, fs, base_dir, context, obj) ==
    LET path == DictGet(context.metadata, "path")
        filepath == custom_get_path(base_dir, path.s)
        w == WritePickle(ds, fs, filepath, obj)
    IN  IF ~IsStr(path)
        THEN [filepath |-> <<>>, raised |-> "CheckError", ret |-> PyNone,
              dirs |-> ds, files |-> fs]
        ELSE [filepath |-> filepath, raised |-> w.raised,
              ret |-> IF w.raised # "None" THEN PyNone
                      ELSE AssetMaterialization(
                               <<context.pipeline_name, context.step_key, context.name>>,
                               filepath),
              dirs |-> w.dirs, files |-> w.files]

\* a handle_output that creates the base directory before it checks the metadata
custom_handle_output_mkdir_first(ds, fs, base_dir, context, obj) ==
    LET path == DictGet(context.metadata, "path")
        filepath == custom_get_path(base_dir, path.s)
        w == WritePickle(ds, fs, filepath, obj)
    IN  IF ~IsStr(path)
        THEN [filepath |-> <<>>, raised |-> "CheckError", ret |-> PyNone,
              dirs |-> mkdir_p(ds, fs, base_dir).dirs, files |-> fs]
        ELSE [filepath |-> filepath, raised |-> w.raised,
              ret |-> IF w.raised # "None" THEN PyNone
                      ELSE AssetMaterialization(
                               <<context.pipeline_name, context.step_key, context.name>>,
                               os_path_abspath(filepath)),
              dirs |-> w.dirs, files |-> w.files]

custom_handle_output(ds, fs, base_dir, context, obj) ==
    LET path == DictGet(context.metadata, "path")
        filepath == custom_get_path(base_dir, path.s)
        w == WritePickle(ds, fs, filepath, obj)
    IN  IF ~IsStr(path)
        THEN [filepath |-> <<>>, raised |-> "CheckError", ret |-> PyNone,
              dirs |-> ds, files |-> fs]
        ELSE [filepath |-> filepath, raised |-> w.raised,
              ret |-> IF w.raised # "None" THEN PyNone
                      ELSE AssetMaterialization(
                               <<context.pipeline_name, context.step_key, context.name>>,
                               os_path_abspath(filepath)),
              dirs |-> w.dirs, files |-> w.files]

custom_load_input(ds, fs, base_dir, upstream_output) ==
    LET path == DictGet(upstream_output.metadata, "path")
        filepath == custom_get_path(base_dir, path.s)
        r == ReadPickle(ds, fs, filepath)
    IN  IF ~IsStr(path)
        THEN [filepath |-> <<>>, raised |-> "CheckError", ret |-> PyNone,
              dirs |-> ds, files |-> fs]
        ELSE [filepath |-> filepath, raised |-> r.exc, ret |-> r.value,
              dirs |-> ds, files |-> fs]

----------------------------------------------------------------------------
(* The inputs *)

\* the calls of one run
MaxCalls == 3

\* the calls of concurrent steps
MaxConcCalls == 2

\* init_context.resource_config["base_dir"]: the default "." and an absolute one
BaseDirs == {<<".">>, <<sep, "t">>}

Managers == [kind : {"auto", "custom"}, base_dir : BaseDirs]

Values == {PyList(<<>>), PyList(<<PyInt(1), PyInt(2)>>), PyFunction}

PathMetadata(path) == Dict(<<<<"path", PyStr(path)>>>>)

\* Output contexts of a pipeline "p", run "r": two outputs of step "s" that
\* name different files, an output of step "u" that names the file of the
\* first, an output with no "path" metadata and one whose "path" is a number.
Contexts ==
    { OutputContext(<<"p">>, <<"r">>, <<"s">>, <<"o">>, PathMetadata(<<"d", sep, "f">>)),
      OutputContext(<<"p">>, <<"r">>, <<"s">>, <<"q">>, PathMetadata(<<"g">>)),
      OutputContext(<<"p">>, <<"r">>, <<"u">>, <<"o">>, PathMetadata(<<"d", sep, "f">>)),
      OutputContext(<<"p">>, <<"r">>, <<"t">>, <<"o">>, Dict(<<>>)),
      OutputContext(<<"p">>, <<"r">>, <<"t">>, <<"q">>, Dict(<<<<"path", PyInt(5)>>>>)) }

\* Contexts the engine's naming rules would not produce: beside a plain one
\* ("d/f") and a plain one that names its directory ("d"), an absolute
\* component and path, a parent-directory component and path, and an empty
\* and a separator-holding component with a path that spells "d/f" as "./d/f".
HostileContexts ==
    { OutputContext(<<"p">>, <<"r">>, <<"s">>, <<"o">>, PathMetadata(<<"d", sep, "f">>)),
      OutputContext(<<"p">>, <<"r">>, <<"s">>, <<"q">>, PathMetadata(<<"d">>)),
      OutputContext(<<"p">>, <<"r">>, <<sep, "s">>, <<"o">>, PathMetadata(<<sep, "x">>)),
      OutputContext(<<"p">>, <<".", ".">>, <<"s">>, <<"o">>,
                    PathMetadata(<<".", ".", sep, "x">>)),
      OutputContext(<<"p">>, <<>>, <<"r", sep, "s">>, <<"o">>,
                    PathMetadata(<<".", sep, "d", sep, "f">>)) }

\* the bytes a buffered file object hands to one write()
BufSize == 8

\* the picklable values
ConcValues == {v \in Values : Picklable(v)}

\* Contexts of concurrent steps: two outputs under one parent directory
\* ("d/f", "d/g") and one that names that directory ("d").
ConcContexts ==
    { OutputContext(<<"p">>, <<"r">>, <<"s">>, <<"o">>, PathMetadata(<<"d", sep, "f">>)),
      OutputContext(<<"p">>, <<"r">>, <<"s">>, <<"q">>, PathMetadata(<<"d", sep, "g">>)),
      OutputContext(<<"p">>, <<"r">>, <<"u">>, <<"o">>, PathMetadata(<<"d">>)) }

\* the strings identifier components and the "path" are drawn from
PathComps == {<<"r">>, <<"s">>, <<>>, <<sep, "r">>, <<"r", sep, "s">>, dotdot}

\* every identifier over these components; the "path" is the step key
PathContexts ==
    { OutputContext(<<"p">>, run_id, step_key, name, PathMetadata(step_key)) :
        run_id \in PathComps, step_key \in PathComps, name \in PathComps }

Procs == {1, 2}

\* a worker of the engine that is in no call
IdleProc ==
    [pc |-> "idle", op |-> "", context |-> PyNone, obj |-> PyNone,
     filepath |-> <<>>, started |-> 0, todo |-> <<>>, cur |-> root,
     key |-> root, offset |-> 0, buffer |-> <<>>]

----------------------------------------------------------------------------
(* A run in which the engine makes one call after the other *)

Init ==
    /\ manager \in Managers
    /\ dirs = {root, cwdKey}
    /\ files = <<>>
    /\ log = <<>>
    /\ procs = [p \in Procs |-> IdleProc]

\* what the engine sees of a finished call
Call(op, context, obj, r) ==
    [op |-> op, context |-> context, obj |-> obj, filepath |-> r.filepath,
     raised |-> r.raised, ret |-> r.ret, started |-> Len(log)]

Finish(op, context, obj, r) ==
    /\ dirs' = r.dirs
    /\ files' = r.files
    /\ log' = Append(log, Call(op, context, obj, r))
    /\ UNCHANGED <<manager, procs>>

AutoHandleOutput(context, obj) ==
    /\ manager.kind = "auto"
    /\ Len(log) < MaxCalls
    /\ Finish("handle_output", context, obj,
              auto_handle_output(dirs, files, manager.base_dir, context, obj))

AutoLoadInput(upstream_output) ==
    /\ manager.kind = "auto"
    /\ Len(log) < MaxCalls
    /\ Finish("load_input", upstream_output, PyNone,
              auto_load_input(dirs, files, manager.base_dir, upstream_output))

CustomHandleOutput(context, obj) ==
    /\ manager.kind = "custom"
    /\ Len(log) < MaxCalls
    /\ Finish("handle_output", context, obj,
              custom_handle_output(dirs, files, manager.base_dir, context, obj))

CustomLoadInput(upstream_output) ==
    /\ manager.kind = "custom"
    /\ Len(log) < MaxCalls
    /\ Finish("load_input", upstream_output, PyNone,
              custom_load_input(dirs, files, manager.base_dir, upstream_output))

NextOver(C) ==
    \E context \in C :
        \/ \E obj \in Values : AutoHandleOutput(context, obj)
        \/ AutoLoadInput(context)
        \/ \E obj \in Values : CustomHandleOutput(context, obj)
        \/ CustomLoadInput(context)

Next == NextOver(Contexts)

Spec == Init /\ [][Next]_vars

----------------------------------------------------------------------------
(* Reading the log of calls *)

IsStore(e) == e.op = "handle_output"

IsLoad(e) == e.op = "load_input"

Succeeded(e) == e.raised = "None"

\* the call got as far as resolving a file path
Resolved(e) == e.raised # "CheckError"

\* the node a path names, read off the path alone
PathKey(path) ==
    SelectSeq(SplitSep(os_path_abspath(path)), LAMBDA c : c # <<>>)

HasPath(context) == IsStr(DictGet(context.metadata, "path"))

\* a name the engine's naming rules allow as a path component
PlainName(c) ==
    /\ c # <<>>
    /\ \A i \in 1..Len(c) : c[i] # sep
    /\ c # dot
    /\ c # dotdot

\* the strings a manager of this kind turns into the path of a context
PathParts(kind, context) ==
    IF kind = "auto" THEN get_run_scoped_output_identifier(context)
    ELSE IF HasPath(context) THEN <<DictGet(context.metadata, "path").s>>
    ELSE <<>>

\* the identifier components are plain names (auto); the "path" is plain
\* names joined by separators (custom)
WellFormed(kind, context) ==
    \A i \in 1..Len(PathParts(kind, context)) :
        IF kind = "auto" THEN PlainName(PathParts(kind, context)[i])
        ELSE \A n \in 1..Len(SplitSep(PathParts(kind, context)[i])) :
                PlainName(SplitSep(PathParts(kind, context)[i])[n])

IsPrefix(a, b) == Len(a) <= Len(b) /\ SubSeq(b, 1, Len(a)) = a

\* one node is the other, or lies above or beneath it
Comparable(a, b) == IsPrefix(a, b) \/ IsPrefix(b, a)

\* a store to the path of call e, successful or not, among calls lo..hi
StoreBetween(e, lo, hi) ==
    \E k \in lo..hi :
        IsStore(log[k]) /\ Resolved(log[k]) /\ log[k].filepath = e.filepath

\* C1: a value stored under an output context is returned, equal, by a load
\* whose upstream output has the same run-scoped identifier (auto) or the
\* same "path" metadata (custom), whatever calls lie between them that do
\* not store to the same path; under either manager.
RoundTrip ==
    \A i \in 1..Len(log) : \A j \in (i + 1)..Len(log) :
        (/\ IsStore(log[i]) /\ Succeeded(log[i])
         /\ IsLoad(log[j])
         /\ PathParts(manager.kind, log[j].context)
               = PathParts(manager.kind, log[i].context)
         /\ ~StoreBetween(log[i], i + 1, j - 1))
        => (Succeeded(log[j]) /\ log[j].ret = log[i].obj)

RoundTripWitness ==
    /\ Len(log) = 3
    /\ IsStore(log[1]) /\ Succeeded(log[1])
    /\ log[1].obj = PyList(<<PyInt(1), PyInt(2)>>)
    /\ IsStore(log[2]) /\ Succeeded(log[2]) /\ log[2].filepath # log[1].filepath
    /\ IsLoad(log[3]) /\ log[3].context = log[1].context
    /\ log[3].ret = log[1].obj

\* C2: after two successful stores to one path the file holds exactly the
\* encoding of the second value, and every later load of the path returns
\* the second value, until the path is stored to again.
Overwrite ==
    \A i \in 1..Len(log) : \A j \in (i + 1)..Len(log) :
        (/\ IsStore(log[i]) /\ Succeeded(log[i])
         /\ IsStore(log[j]) /\ Succeeded(log[j])
         /\ log[j].filepath = log[i].filepath)
        => /\ ~StoreBetween(log[j], j + 1, Len(log))
              => /\ PathKey(log[j].filepath) \in DOMAIN files
                 /\ files[PathKey(log[j].filepath)] = pickle_dumps(log[j].obj)
           /\ \A k \in (j + 1)..Len(log) :
                 (/\ IsLoad(log[k]) /\ log[k].filepath = log[j].filepath
                  /\ ~StoreBetween(log[j], j + 1, k - 1))
                 => (Succeeded(log[k]) /\ log[k].ret = log[j].obj)

OverwriteWitness ==
    /\ Len(log) = 3
    /\ IsStore(log[1]) /\ Succeeded(log[1])
    /\ log[1].obj = PyList(<<PyInt(1), PyInt(2)>>)
    /\ IsStore(log[2]) /\ Succeeded(log[2])
    /\ log[2].obj = PyList(<<>>)
    /\ log[2].filepath = log[1].filepath /\ log[2].context # log[1].context
    /\ IsLoad(log[3]) /\ log[3].filepath = log[1].filepath
    /\ log[3].ret = PyList(<<>>)

\* C3: the auto-path manager returns no materialization record from any
\* call, and handle_output returns None.
AutoEmitsNothing ==
    manager.kind = "auto" =>
        \A i \in 1..Len(log) :
            /\ log[i].ret.type # "AssetMaterialization"
            /\ IsStore(log[i]) => log[i].ret = PyNone

AutoEmitsNothingWitness ==
    /\ manager.kind = "auto"
    /\ Len(log) = 2
    /\ IsStore(log[1]) /\ Succeeded(log[1])
    /\ IsLoad(log[2]) /\ Succeeded(log[2])

\* C4: the custom-path manager returns one materialization record from a
\* successful handle_output and from no other call; its asset key is
\* (pipeline name, step key, output name) and its path is the absolute path
\* of the file written, which holds the whole encoding when the call returns.
CustomEmitsOne ==
    manager.kind = "custom" =>
        /\ \A i \in 1..Len(log) :
              IF IsStore(log[i]) /\ Succeeded(log[i])
              THEN /\ log[i].ret.type = "AssetMaterialization"
                   /\ log[i].ret.asset_key =
                          <<log[i].context.pipeline_name, log[i].context.step_key,
                            log[i].context.name>>
                   /\ StartsWithSep(log[i].ret.fspath)
                   /\ SelectSeq(SplitSep(log[i].ret.fspath), LAMBDA c : c # <<>>)
                          \in DOMAIN files
              ELSE log[i].ret.type # "AssetMaterialization"
        /\ (log # <<>> /\ IsStore(Last(log)) /\ Succeeded(Last(log)))
              => files[SelectSeq(SplitSep(Last(log).ret.fspath), LAMBDA c : c # <<>>)]
                    = pickle_dumps(Last(log).obj)

CustomEmitsOneWitness ==
    /\ manager.kind = "custom"
    /\ manager.base_dir = <<sep, "t">>
    /\ Len(log) = 3
    /\ IsStore(log[1]) /\ ~Succeeded(log[1])
    /\ IsLoad(log[2])
    /\ IsStore(log[3]) /\ Succeeded(log[3])
    /\ log[3].ret.fspath = <<sep, "t", sep, "d", sep, "f">>

\* C5: on the custom-path manager a call whose output metadata has no
\* string "path" fails with the check error before any path is resolved and
\* leaves every directory and file as it was; it returns no record.
MissingPathStep ==
    (/\ manager.kind = "custom"
     /\ Len(log') = Len(log) + 1
     /\ ~HasPath(Last(log').context))
    => /\ Last(log').raised = "CheckError"
       /\ Last(log').ret = PyNone
       /\ Last(log').filepath = <<>>
       /\ dirs' = dirs
       /\ files' = files

MissingPath == [][MissingPathStep]_vars

MissingPathWitness ==
    /\ manager.kind = "custom"
    /\ Len(log) = 3
    /\ IsStore(log[1]) /\ Succeeded(log[1])
    /\ IsStore(log[2]) /\ log[2].raised = "CheckError"
    /\ DictGet(log[2].context.metadata, "path") = PyNone
    /\ IsLoad(log[3]) /\ log[3].raised = "CheckError"
    /\ DictGet(log[3].context.metadata, "path") = PyInt(5)
    /\ DOMAIN files # {}

----------------------------------------------------------------------------
(* The same run over contexts with hostile names *)

SpecHostile == Init /\ [][NextOver(HostileContexts)]_vars

Appended == Len(log') = Len(log) + 1

\* C6 as stated: a load of an identity (auto) or "path" (custom) that no
\* successful store had as its target raises FileNotFoundError, returns
\* nothing and leaves the file system as it was.
NeverStoredAsStatedStep ==
    (/\ Appended
     /\ IsLoad(Last(log')) /\ Resolved(Last(log'))
     /\ ~\E i \in 1..Len(log) :
            /\ IsStore(log[i]) /\ Succeeded(log[i])
            /\ PathParts(manager.kind, log[i].context)
                  = PathParts(manager.kind, Last(log').context))
    => /\ Last(log').raised = "FileNotFoundError"
       /\ Last(log').ret = PyNone
       /\ dirs' = dirs
       /\ files' = files

NeverStoredAsStated == [][NeverStoredAsStatedStep]_vars

\* C6, amended: in a run whose identifiers and paths are made of plain
\* names, a load raises FileNotFoundError, returns nothing and leaves the
\* file system as it was when no earlier handle_output, successful or failed,
\* resolved to the same file or to one above or beneath it.
NeverStoredStep ==
    (/\ Appended
     /\ IsLoad(Last(log')) /\ Resolved(Last(log'))
     /\ \A i \in 1..Len(log') : WellFormed(manager.kind, log'[i].context)
     /\ ~\E i \in 1..Len(log) :
            /\ IsStore(log[i]) /\ Resolved(log[i])
            /\ Comparable(PathKey(log[i].filepath), PathKey(Last(log').filepath)))
    => /\ Last(log').raised = "FileNotFoundError"
       /\ Last(log').ret = PyNone
       /\ dirs' = dirs
       /\ files' = files

NeverStored == [][NeverStoredStep]_vars

NeverStoredWitness ==
    /\ manager.kind = "custom"
    /\ Len(log) = 3
    /\ \A i \in 1..3 : WellFormed(manager.kind, log[i].context)
    /\ IsLoad(log[1]) /\ log[1].raised = "FileNotFoundError"
    /\ IsStore(log[2]) /\ Succeeded(log[2])
    /\ IsLoad(log[3]) /\ log[3].raised = "IsADirectoryError"
    /\ IsPrefix(PathKey(log[3].filepath), PathKey(log[2].filepath))

\* the directory the manager was configured with
BaseKey == PathKey(manager.base_dir)

\* a node of the file system lies in the base directory's subtree, or was
\* there before the manager was built
Rooted(key) == key \in {root, cwdKey} \/ IsPrefix(BaseKey, key)

Safe(kind, context) ==
    \A i \in 1..Len(PathParts(kind, context)) :
        /\ ~StartsWithSep(PathParts(kind, context)[i])
        /\ \A n \in 1..Len(SplitSep(PathParts(kind, context)[i])) :
              SplitSep(PathParts(kind, context)[i])[n] # dotdot

\* <baseDir>/<part>/.../<part>, written out
RECURSIVE Layout(_, _)
Layout(base, parts) ==
    IF parts = <<>> THEN base
    ELSE Layout(base \o <<sep>> \o Head(parts), Tail(parts))

----------------------------------------------------------------------------
(* Calls of concurrent steps, one file-system call at a time *)

Active == {p \in Procs : procs[p].pc # "idle"}

\* the path the manager resolves for a context, or the check error
get_path(context) ==
    IF manager.kind = "auto"
    THEN [raised |-> "None", filepath |-> auto_get_path(manager.base_dir, context)]
    ELSE IF ~IsStr(DictGet(context.metadata, "path"))
         THEN [raised |-> "CheckError", filepath |-> <<>>]
    ELSE [raised |-> "None",
          filepath |-> custom_get_path(manager.base_dir,
                                       DictGet(context.metadata, "path").s)]

\* the call of worker p ends: the engine sees what it raised or returned
Return(p, raised, ret) ==
    /\ log' = Append(log, [op |-> procs[p].op, context |-> procs[p].context,
                           obj |-> procs[p].obj, filepath |-> procs[p].filepath,
                           raised |-> raised, ret |-> ret,
                           started |-> procs[p].started])
    /\ procs' = [procs EXCEPT ![p] = IdleProc]

\* handle_output / load_input is entered: the checks and _get_path
Invoke(p, op, context, obj) ==
    /\ procs[p].pc = "idle"
    /\ Len(log) + Cardinality(Active) < MaxConcCalls
    /\ LET g == get_path(context)
       IN  IF g.raised # "None"
           THEN /\ log' = Append(log, [op |-> op, context |-> context, obj |-> obj,
                                       filepath |-> g.filepath, raised |-> g.raised,
                                       ret |-> PyNone, started |-> Len(log)])
                /\ UNCHANGED procs
           ELSE /\ procs' = [procs EXCEPT ![p] =
                               [IdleProc EXCEPT
                                  !.pc = IF op = "handle_output" THEN "mkdir" ELSE "read",
                                  !.op = op, !.context = context, !.obj = obj,
                                  !.filepath = g.filepath, !.started = Len(log),
                                  !.todo = SplitSep(os_path_dirname(g.filepath)),
                                  !.cur = StartKey(g.filepath)]]
                /\ UNCHANGED log
    /\ UNCHANGED <<manager, dirs, files>>

InvokeHandleOutput(p, context, obj) == Invoke(p, "handle_output", context, obj)

InvokeLoadInput(p, upstream_output) == Invoke(p, "load_input", upstream_output, PyNone)

\* mkdir_p up to and with the next directory it has to create
RECURSIVE MkdirNext(_, _, _, _)
MkdirNext(ds, fs, cur, comps) ==
    IF comps = <<>> THEN [exc |-> "None", dirs |-> ds, key |-> cur, todo |-> <<>>]
    ELSE LET m == MkdirComp(ds, fs, cur, Head(comps), Len(comps) = 1)
         IN  IF m.exc # "None" \/ m.dirs # ds
             THEN [exc |-> m.exc, dirs |-> m.dirs, key |-> m.key, todo |-> Tail(comps)]
             ELSE MkdirNext(ds, fs, m.key, Tail(comps))

Mkdir(p) ==
    /\ procs[p].pc = "mkdir"
    /\ LET m == IF os_path_dirname(procs[p].filepath) = <<>>
                THEN [exc |-> "FileNotFoundError", dirs |-> dirs, key |-> root,
                      todo |-> <<>>]
                ELSE MkdirNext(dirs, files, procs[p].cur, procs[p].todo)
       IN  /\ dirs' = m.dirs
           /\ IF m.exc # "None" THEN Return(p, m.exc, PyNone)
              ELSE /\ procs' = [procs EXCEPT ![p].cur = m.key, ![p].todo = m.todo,
                                             ![p].pc = IF m.todo = <<>> THEN "open"
                                                       ELSE "mkdir"]
                   /\ UNCHANGED log
    /\ UNCHANGED <<manager, files>>

\* open(filepath, "wb"), and pickle.dump into the file object's buffer
Open(p) ==
    /\ procs[p].pc = "open"
    /\ LET o == OpenWrite(dirs, files, procs[p].filepath)
       IN  /\ files' = o.files
           /\ IF o.exc # "None" THEN Return(p, o.exc, PyNone)
              ELSE IF ~Picklable(procs[p].obj) THEN Return(p, "PicklingError", PyNone)
              ELSE /\ procs' = [procs EXCEPT ![p].pc = "write", ![p].key = o.key,
                                             ![p].offset = 0,
                                             ![p].buffer = pickle_dumps(procs[p].obj)]
                   /\ UNCHANGED log
    /\ UNCHANGED <<manager, dirs>>

\* what a successful handle_output returns
handle_output_ret(context, filepath) ==
    IF manager.kind = "auto" THEN PyNone
    ELSE AssetMaterialization(<<context.pipeline_name, context.step_key, context.name>>,
                              os_path_abspath(filepath))

\* write() of the buffered bytes: a full buffer, or the rest as the file is
\* closed and handle_output returns
Write(p) ==
    /\ procs[p].pc = "write"
    /\ LET n == IF Len(procs[p].buffer) > BufSize THEN BufSize ELSE Len(procs[p].buffer)
           rest == SubSeq(procs[p].buffer, n + 1, Len(procs[p].buffer))
       IN  /\ files' = [files EXCEPT ![procs[p].key] =
                           WriteAt(@, procs[p].offset, SubSeq(procs[p].buffer, 1, n))]
           /\ IF rest = <<>>
              THEN Return(p, "None",
                          handle_output_ret(procs[p].context, procs[p].filepath))
              ELSE /\ procs' = [procs EXCEPT ![p].offset = @ + n, ![p].buffer = rest]
                   /\ UNCHANGED log
    /\ UNCHANGED <<manager, dirs>>

\* open(filepath, "rb") and pickle.load
Read(p) ==
    /\ procs[p].pc = "read"
    /\ LET r == ReadPickle(dirs, files, procs[p].filepath)
       IN  Return(p, r.exc, r.value)
    /\ UNCHANGED <<manager, dirs, files>>

NextConc ==
    \E p \in Procs :
        \/ \E context \in ConcContexts : \E obj \in ConcValues :
              InvokeHandleOutput(p, context, obj)
        \/ \E context \in ConcContexts : InvokeLoadInput(p, context)
        \/ Mkdir(p)
        \/ Open(p)
        \/ Write(p)
        \/ Read(p)

SpecConc == Init /\ [][NextConc]_vars

----------------------------------------------------------------------------
(* Path resolution alone: two workers, each resolving one context *)

NextPath == \E p \in Procs : \E context \in PathContexts : InvokeLoadInput(p, context)

SpecPath == Init /\ [][NextPath]_vars


BothResolved == \A p \in Procs : procs[p].pc # "idle"

Identifier(p) == get_run_scoped_output_identifier(procs[p].context)

\* C7 as stated: the auto-path manager resolves two distinct (run id, step
\* key, output name) triples of any strings to two distinct paths.
PathInjectiveAsStated ==
    (manager.kind = "auto" /\ BothResolved /\ Identifier(1) # Identifier(2))
    => procs[1].filepath # procs[2].filepath

\* C7, amended: two distinct triples whose components are plain names (not
\* empty, no separator, neither "." nor "..") resolve to distinct paths,
\* which name distinct files.
PathInjective ==
    (/\ manager.kind = "auto" /\ BothResolved /\ Identifier(1) # Identifier(2)
     /\ \A p \in Procs : WellFormed("auto", procs[p].context))
    => /\ procs[1].filepath # procs[2].filepath
       /\ PathKey(procs[1].filepath) # PathKey(procs[2].filepath)

PathInjectiveWitness ==
    /\ manager.kind = "auto" /\ BothResolved
    /\ \A p \in Procs : WellFormed("auto", procs[p].context)
    /\ Identifier(1) = <<<<"r">>, <<"s">>, <<"r">>>>
    /\ Identifier(2) = <<<<"s">>, <<"s">>, <<"r">>>>
    /\ procs[1].filepath = manager.base_dir \o <<sep, "r", sep, "s", sep, "r">>

----------------------------------------------------------------------------
(* Claims about concurrent steps *)

\* the stores of the run: the finished ones and the ones under way
Stores ==
    {<<"log", i>> : i \in {k \in 1..Len(log) : IsStore(log[k]) /\ Resolved(log[k])}}
    \cup {<<"proc", p>> : p \in {q \in Active : procs[q].op = "handle_output"}}

StorePath(s) == IF s[1] = "log" THEN log[s[2]].filepath ELSE procs[s[2]].filepath

StoreContext(s) == IF s[1] = "log" THEN log[s[2]].context ELSE procs[s[2]].context

StoreObj(s) == IF s[1] = "log" THEN log[s[2]].obj ELSE procs[s[2]].obj

\* what a load of the path would return now
LoadNow(path) == ReadPickle(dirs, files, path)

\* C8: when two stores to one path ran concurrently and both have
\* returned, the file holds exactly the encoding of the value of the one
\* that returned last, and a load returns that value.
LastWriterWins ==
    \A i \in 1..Len(log) : \A j \in (i + 1)..Len(log) :
        (/\ IsStore(log[i]) /\ Succeeded(log[i])
         /\ IsStore(log[j]) /\ Succeeded(log[j])
         /\ log[j].filepath = log[i].filepath
         /\ log[j].started < i
         /\ \A s \in Stores : StorePath(s) = log[j].filepath => s \in {<<"log", i>>, <<"log", j>>})
        => /\ files[PathKey(log[j].filepath)] = pickle_dumps(log[j].obj)
           /\ LoadNow(log[j].filepath) = [exc |-> "None", value |-> log[j].obj]

\* every store succeeded, and each stored path loads as the value stored
StoresIntact ==
    \A i \in 1..Len(log) :
        (IsStore(log[i]) /\ Resolved(log[i]))
        => /\ Succeeded(log[i])
           /\ LoadNow(log[i].filepath) = [exc |-> "None", value |-> log[i].obj]
           /\ \A j \in (i + 1)..Len(log) :
                 (/\ IsLoad(log[j]) /\ log[j].filepath = log[i].filepath
                  /\ log[j].started >= i)
                 => (Succeeded(log[j]) /\ log[j].ret = log[i].obj)

\* the stores are of picklable values, to paths made of plain names
PlainStores ==
    \A s \in Stores :
        Picklable(StoreObj(s)) /\ WellFormed(manager.kind, StoreContext(s))

\* C9 as stated: stores to pairwise distinct resolved paths, however they
\* interleave, all succeed, and a load issued after the store of its path
\* returns the value stored.
DistinctPathsSafe ==
    (/\ PlainStores
     /\ \A s, t \in Stores : s # t => PathKey(StorePath(s)) # PathKey(StorePath(t)))
    => StoresIntact

\* C9, amended: the same for stores to paths of which none is another or
\* lies beneath another.
DisjointPathsSafe ==
    (/\ PlainStores
     /\ \A s, t \in Stores :
           s # t => ~Comparable(PathKey(StorePath(s)), PathKey(StorePath(t))))
    => StoresIntact

DisjointPathsSafeWitness ==
    /\ manager = [kind |-> "custom", base_dir |-> <<sep, "t">>]
    /\ Len(log) = 2
    /\ IsStore(log[1]) /\ Succeeded(log[1])
    /\ IsStore(log[2]) /\ Succeeded(log[2])
    /\ log[2].started = 0
    /\ PathKey(log[1].filepath) = <<<<"t">>, <<"d">>, <<"f">>>>
    /\ PathKey(log[2].filepath) = <<<<"t">>, <<"d">>, <<"g">>>>
    /\ log[2].obj = PyList(<<PyInt(1), PyInt(2)>>)

====
